---- MODULE Spec2Model ----
(***************************************************************************)
(* Order intake of the storefront: the createEventOrder HTTP function      *)
(* (functions/src/index.ts), the document store it runs its transaction    *)
(* against, and the seller dashboard handlers that write the same          *)
(* documents (src/app/dashboard/page.tsx).                                 *)
(*                                                                         *)
(* Strings are sequences of symbols; the symbol " " is white space.        *)
(* A JavaScript value of the request body is a record tagged by its type   *)
(* in the field t.  A number is kept in halves (h = 3 is 1.5) so that      *)
(* Math.floor has something to do.                                         *)
(***************************************************************************)
EXTENDS Integers, Sequences, FiniteSets, TLC

(* ---------------------------- bounds ---------------------------------- *)
NumReq == 2          \* concurrent invocations of createEventOrder
MaxStock == 2        \* largest stock a product starts with or a seller types
MaxSellerOps == 2    \* dashboard writes in one behaviour
MaxQty == 2          \* largest quantity of a cart of the concurrent invocations
MaxEntries == 2      \* entries of a raw quantities payload
MaxAttempts == 2     \* runs of a transaction body before the store gives up
MaxToggles == 3      \* calls of handleToggleDelivered

(* ------------------------ program constants --------------------------- *)
QtyMin == 0
QtyMax == 999
NameCap == 120
EventIdCap == 120
CustomerNameCap == 80
NoteCap == 800
DeliveryDateCap == 40
DeliveryTimeSlotCap == 20
LocationLinkCap == 300

Reqs == 1..NumReq

(* ------------------------------ strings ------------------------------- *)
Sp == " "
Coxinha == <<"Coxinha">>
Kibe == <<"Kibe">>
Names == {Coxinha, Kibe}
E1 == <<"e1">>
E2 == <<"e2">>
EventDocIds == {E1}
ProdDocIds == {"p1", "p2"}

Min(a, b) == IF a <= b THEN a ELSE b
Max(a, b) == IF a >= b THEN a ELSE b

RECURSIVE TrimStart(_)
TrimStart(s) == IF s # <<>> /\ Head(s) = Sp THEN TrimStart(Tail(s)) ELSE s

RECURSIVE TrimEnd(_)
TrimEnd(s) ==
  IF s # <<>> /\ s[Len(s)] = Sp THEN TrimEnd(SubSeq(s, 1, Len(s) - 1)) ELSE s

Trim(s) == TrimEnd(TrimStart(s))

Slice(s, maxLen) == SubSeq(s, 1, Min(Len(s), maxLen))

\* cleanStr without the trim
cleanStrNoTrim(v, maxLen) == Slice(IF v.t = "string" THEN v.v ELSE <<>>, maxLen)

\* cleanStr: a non-string value is the empty string
cleanStr(v, maxLen) == Slice(IF v.t = "string" THEN Trim(v.v) ELSE <<>>, maxLen)

(* ------------------------------ numbers ------------------------------- *)
\* Number(n) is finite exactly for the values tagged "number"
IsFinite(n) == n.t = "number"

\* Math.floor of h halves
Floor(h) == h \div 2

clampIntNoMax(n, min, max) ==
  IF ~IsFinite(n) THEN min ELSE Max(min, Floor(n.h))

clampInt(n, min, max) ==
  IF ~IsFinite(n) THEN min ELSE Min(max, Max(min, Floor(n.h)))

(* --------------------------- JavaScript values ------------------------ *)
Undefined == [t |-> "undefined"]
Null == [t |-> "null"]
Str(s) == [t |-> "string", v |-> s]
Num(h) == [t |-> "number", h |-> h]
NaN == [t |-> "NaN"]
Infinity == [t |-> "Infinity"]
\* the empty array; Object.entries of it is empty
Arr == [t |-> "array", entries |-> <<>>]
Obj(entries) == [t |-> "object", entries |-> entries]

\* v || {} : null, undefined, 0, NaN and "" are falsy
OrEmptyObject(v) ==
  IF v.t \in {"undefined", "null", "NaN"} THEN Obj(<<>>)
  ELSE IF v.t = "number" /\ v.h = 0 THEN Obj(<<>>)
  ELSE IF v.t = "string" /\ v.v = <<>> THEN Obj(<<>>)
  ELSE v

\* the check without Array.isArray
NotPlainObjectTypeof(v) == v.t \notin {"object", "null", "array"}

\* typeof v !== "object" || Array.isArray(v)
NotPlainObject(v) == v.t \notin {"object", "null", "array"} \/ v.t = "array"

(* ---- an object with string keys: a sequence of <<key, value>> pairs ---- *)
(* ---- in insertion order, which is the order Object.entries yields   ---- *)
Keys(o) == {o[i][1] : i \in 1..Len(o)}

ObjGet(o, k) == LET i == CHOOSE j \in 1..Len(o) : o[j][1] = k IN o[i][2]

ObjSet(o, k, v) ==
  IF k \in Keys(o)
    THEN [i \in 1..Len(o) |-> IF o[i][1] = k THEN <<k, v>> ELSE o[i]]
    ELSE Append(o, <<k, v>>)

ObjFn(o) == [k \in Keys(o) |-> ObjGet(o, k)]

RECURSIVE SumValues(_)
SumValues(o) == IF o = <<>> THEN 0 ELSE o[1][2] + SumValues(Tail(o))

FnSet(f, k, v) == [x \in (DOMAIN f) \cup {k} |-> IF x = k THEN v ELSE f[x]]

(* ------------- cleaning of the quantities payload (228-233) ----------- *)
RECURSIVE CleanQuantitiesAnyQty(_, _)
\* the cleaning that drops the empty names only
CleanQuantitiesAnyQty(raw, acc) ==
  IF raw = <<>> THEN acc
  ELSE LET productName == cleanStr(Str(raw[1][1]), NameCap)
           qty == clampInt(raw[1][2], QtyMin, QtyMax)
       IN CleanQuantitiesAnyQty(Tail(raw),
            IF productName # <<>> THEN ObjSet(acc, productName, qty) ELSE acc)

RECURSIVE CleanQuantities(_, _)
CleanQuantities(raw, acc) ==
  IF raw = <<>> THEN acc
  ELSE LET productName == cleanStr(Str(raw[1][1]), NameCap)
           qty == clampInt(raw[1][2], QtyMin, QtyMax)
       IN CleanQuantities(Tail(raw),
            IF productName # <<>> /\ qty > 0 THEN ObjSet(acc, productName, qty) ELSE acc)

\* totalItems as the first entry only: a reduce that forgets to accumulate
TotalItemsFirst(quantities) == IF quantities = <<>> THEN 0 ELSE quantities[1][2]

TotalItems(quantities) == SumValues(quantities)

DeliveryMode(v) == IF v \in {"delivery", "pickup", "none"} THEN v ELSE "pickup"

OrDefault(s, d) == IF s = <<>> THEN d ELSE s

SemPreferencia == <<"Sem preferencia">>

(* ------------------------------- state -------------------------------- *)
VARIABLES
  events,         \* events collection: document id -> [exists, status]
  products,       \* products collection: document id -> [exists, name, tracked, stockQty, status]
  orders,         \* the orders sub-collections: a set of order documents
  pc,             \* where each invocation of createEventOrder stands
  body,           \* req.body of each invocation
  quantities,     \* the cleaned quantities of each invocation
  idx,            \* position of the product loop in Object.entries(quantities)
  prodDoc,        \* qs.docs[0].id of the running iteration
  stockPlans,     \* the staged decrements of the running transaction body
  readSet,        \* documents the running transaction has read with tx.get
  stale,          \* a document of readSet was written since it was read
  attempts,       \* runs of the transaction body so far
  updatedStocks,  \* the object declared outside the transaction
  resp,           \* the response sent
  sellerOps,      \* dashboard writes so far
  stockEdited,    \* a dashboard write set a stockQty or deleted a product
  renamed,        \* a dashboard write changed a product name
  initial,        \* the products collection of the initial state
  txPc,           \* where registerOrderInFirestore of the event page stands
  quantitiesClean,\* its cart: the entries of positive quantity
  txIdx,          \* position of its loop in Object.entries(quantitiesClean)
  txOps,          \* the calls made on its transaction object, in order
  txError,        \* the message of the Error it threw, "" if none
  sendPc,         \* event page: "form", or "awaiting" the answer of the endpoint
  formQuantities, \* event page: the quantities state of the form
  productsData,   \* event page: the local view of the catalogue
  linkOpened,     \* the last handleSend call opened the WhatsApp/Messenger link
  formWasReset,   \* the last handleSend call ran resetForm
  alertShown,     \* the message the last handleSend call alerted, "" if none
  fetchOutcome,   \* how the fetch of the last handleSend call ended
  storedOrders,   \* driver view: the order documents, id -> [status, deliveryDriverName]
  driverOrders,   \* driver view: the orders state of the page
  deliveredOrderIds, \* driver view: the ids the page shows as delivered
  driverName,     \* driver view: the name field
  toggles,        \* calls of handleToggleDelivered so far
  lastToggle,     \* the order of the last call and whether it wrote
  toggledSinceLoad \* a call wrote since the page was loaded

clientTxVars == <<txPc, quantitiesClean, txIdx, txOps, txError>>
sendVars == <<sendPc, formQuantities, productsData, linkOpened, formWasReset, alertShown,
              fetchOutcome>>
driverVars == <<storedOrders, driverOrders, deliveredOrderIds, driverName, toggles,
                lastToggle, toggledSinceLoad>>
pageVars == <<clientTxVars, sendVars, driverVars>>
functionVars == <<pc, body, quantities, idx, prodDoc, stockPlans, readSet, stale, attempts,
                  updatedStocks, resp, sellerOps, stockEdited, renamed, initial>>

vars == <<events, products, orders, pc, body, quantities, idx, prodDoc, stockPlans,
          readSet, stale, attempts, updatedStocks, resp, sellerOps, stockEdited,
          renamed, initial, pageVars>>

storeVars == <<events, products, orders>>
sellerVars == <<sellerOps, stockEdited, renamed, initial>>

EventDoc(id) == <<"events", id>>
ProductDoc(id) == <<"products", id>>

NoBody == [method |-> "none"]
NoResp == [status |-> 0]
NoDoc == "none"

Err(msg) == [msg |-> msg, product |-> <<>>, left |-> 0]
ErrProduct(msg, name) == [msg |-> msg, product |-> name, left |-> 0]
ErrStockNoLeft(name, left) == [msg |-> "Insufficient stock", product |-> name, left |-> 0]

ErrStock(name, left) == [msg |-> "Insufficient stock", product |-> name, left |-> left]

Failure(code, error) == [status |-> code, ok |-> FALSE, error |-> error]
Success(orderId, stocks) ==
  [status |-> 200, ok |-> TRUE, orderId |-> orderId, updatedStocks |-> stocks]

(* ------------------------------ Init ---------------------------------- *)
\* the orders of the driver view: pending, no driver yet
DriverOrderIds == {"o1", "o2"}
NewOrder == [status |-> "pending", deliveryDriverName |-> <<>>]
NoToggle == [order |-> "", wrote |-> FALSE]

\* the pages as they are once loaded, nothing submitted yet
PagesInit ==
  /\ txPc = "idle"
  /\ quantitiesClean = <<>>
  /\ txIdx = 0
  /\ txOps = <<>>
  /\ txError = ""
  /\ sendPc = "form"
  /\ formQuantities = [n \in Names |-> 0]
  /\ productsData =
       [n \in Names |-> [tracked |-> n = Coxinha,
                         stockQty |-> IF n = Coxinha THEN MaxStock ELSE 0,
                         status |-> "active"]]
  /\ linkOpened = FALSE
  /\ formWasReset = FALSE
  /\ alertShown = ""
  /\ fetchOutcome = [kind |-> "none"]
  /\ storedOrders = [o \in DriverOrderIds |-> NewOrder]
  /\ driverOrders = [o \in DriverOrderIds |-> NewOrder]
  /\ deliveredOrderIds = {}
  /\ driverName = <<>>
  /\ toggles = 0
  /\ lastToggle = NoToggle
  /\ toggledSinceLoad = FALSE

\* the store holding the event ev and two products of statuses st, and no
\* request received yet
InitFrom(ev, st) ==
  /\ PagesInit
  /\ events = [e \in EventDocIds |-> ev]
  /\ \E s1 \in 0..MaxStock, t2 \in BOOLEAN, s2 \in 0..MaxStock :
       /\ (~t2 => s2 = 0)
       /\ products =
            [p \in ProdDocIds |->
               IF p = "p1"
                 THEN [exists |-> TRUE, name |-> Coxinha, tracked |-> TRUE,
                       stockQty |-> s1, status |-> st[p]]
                 ELSE [exists |-> TRUE, name |-> Kibe, tracked |-> t2,
                       stockQty |-> s2, status |-> st[p]]]
  /\ orders = {}
  /\ pc = [r \in Reqs |-> "idle"]
  /\ body = [r \in Reqs |-> NoBody]
  /\ quantities = [r \in Reqs |-> <<>>]
  /\ idx = [r \in Reqs |-> 0]
  /\ prodDoc = [r \in Reqs |-> NoDoc]
  /\ stockPlans = [r \in Reqs |-> <<>>]
  /\ readSet = [r \in Reqs |-> {}]
  /\ stale = [r \in Reqs |-> FALSE]
  /\ attempts = [r \in Reqs |-> 0]
  /\ updatedStocks = [r \in Reqs |-> <<>>]
  /\ resp = [r \in Reqs |-> NoResp]
  /\ sellerOps = 0
  /\ stockEdited = FALSE
  /\ renamed = FALSE
  /\ initial = products

\* an active event that lists both products, both of them active
Init ==
  InitFrom([exists |-> TRUE, status |-> "active", productNames |-> Names],
           [p \in ProdDocIds |-> "active"])

\* an event of any status, "" standing for a document without the field,
\* that lists any of the products, each of them active or inactive
InitEvents ==
  \E es \in {"", "active", "closed"}, ns \in SUBSET Names,
     st \in [ProdDocIds -> {"active", "inactive"}] :
    InitFrom([exists |-> TRUE, status |-> es, productNames |-> ns], st)

(* ------------------- createEventOrder: validation --------------------- *)
NoItemsNegative(totalItems) == totalItems < 0

NoItems(totalItems) == totalItems <= 0

\* corsMiddleware (cors({ origin: true }), lines 167 and 200): the middleware
\* answers an OPTIONS request itself, as a preflight, with 204 and no body,
\* and does not call the handler; every other request is passed on
IsPreflight(method) == method = "OPTIONS"
Preflight == [status |-> 204]

\* a method check that lets GET through
MethodAllowedGet(method) == method \in {"POST", "GET"}

\* req.method !== "POST" (line 202)
MethodAllowed(method) == method = "POST"

\* the channel looked at before the eventId
ValidateChannelFirst(b) ==
  LET eventId == cleanStr(b.eventId, EventIdCap)
      quantitiesRaw == OrEmptyObject(b.quantities)
  IN IF IsPreflight(b.method) THEN Preflight
     ELSE IF ~MethodAllowed(b.method) THEN Failure(405, Err("Method not allowed"))
     ELSE IF b.channel # "whatsapp" /\ b.channel # "messenger"
       THEN Failure(400, Err("Invalid channel"))
     ELSE IF eventId = <<>> THEN Failure(400, Err("Missing eventId"))
     ELSE IF NotPlainObject(quantitiesRaw) THEN Failure(400, Err("Invalid quantities"))
     ELSE IF NoItems(TotalItems(CleanQuantities(quantitiesRaw.entries, <<>>)))
       THEN Failure(400, Err("Select at least 1 item"))
     ELSE NoResp

\* lines 200-239: the first failing check answers; NoResp when all pass
Validate(b) ==
  LET eventId == cleanStr(b.eventId, EventIdCap)
      quantitiesRaw == OrEmptyObject(b.quantities)
  IN IF IsPreflight(b.method) THEN Preflight
     ELSE IF ~MethodAllowed(b.method) THEN Failure(405, Err("Method not allowed"))
     ELSE IF eventId = <<>> THEN Failure(400, Err("Missing eventId"))
     ELSE IF b.channel # "whatsapp" /\ b.channel # "messenger"
       THEN Failure(400, Err("Invalid channel"))
     ELSE IF NotPlainObject(quantitiesRaw) THEN Failure(400, Err("Invalid quantities"))
     ELSE IF NoItems(TotalItems(CleanQuantities(quantitiesRaw.entries, <<>>)))
       THEN Failure(400, Err("Select at least 1 item"))
     ELSE NoResp

\* the handler runs without suspension up to the first await, tx.get(eventRef);
\* the request body is one of B
Receive(r, B) ==
  /\ pc[r] = "idle"
  /\ \E b \in B :
       /\ body' = [body EXCEPT ![r] = b]
       /\ IF Validate(b) # NoResp
            THEN /\ resp' = [resp EXCEPT ![r] = Validate(b)]
                 /\ pc' = [pc EXCEPT ![r] = "done"]
                 /\ UNCHANGED <<quantities, attempts>>
            ELSE /\ quantities' =
                      [quantities EXCEPT ![r] =
                         CleanQuantities(OrEmptyObject(b.quantities).entries, <<>>)]
                 /\ attempts' = [attempts EXCEPT ![r] = 1]
                 /\ pc' = [pc EXCEPT ![r] = "txGetEvent"]
                 /\ UNCHANGED resp
  /\ UNCHANGED <<storeVars, idx, prodDoc, stockPlans, readSet, stale, updatedStocks,
                 sellerVars>>

EventId(r) == cleanStr(body[r].eventId, EventIdCap)

(* ------------------- createEventOrder: transaction -------------------- *)
\* an Error thrown in the transaction body: runTransaction rolls back and
\* rejects, the catch of lines 315-318 answers 400 with the message
Throw(r, error) ==
  /\ resp' = [resp EXCEPT ![r] = Failure(400, error)]
  /\ pc' = [pc EXCEPT ![r] = "done"]
  /\ idx' = [idx EXCEPT ![r] = 0]
  /\ prodDoc' = [prodDoc EXCEPT ![r] = NoDoc]
  /\ stockPlans' = [stockPlans EXCEPT ![r] = <<>>]
  /\ readSet' = [readSet EXCEPT ![r] = {}]
  /\ stale' = [stale EXCEPT ![r] = FALSE]

\* tx.get(ref): the document joins the read set of the transaction
TxGetUntracked(rs, d) == rs

TxGet(rs, d) == rs \cup {d}

EventExists(id) == id \in DOMAIN events /\ events[id].exists

\* String(eventData.status || "active")
StatusAny(e) == "active"

StatusNoDefault(e) == e.status

Status(e) == IF e.status = "" THEN "active" ELSE e.status

TxGetEvent(r) ==
  /\ pc[r] = "txGetEvent"
  /\ IF ~EventExists(EventId(r)) THEN Throw(r, Err("Event not found"))
     ELSE IF Status(events[EventId(r)]) # "active" THEN Throw(r, Err("Event is not active"))
     ELSE /\ readSet' = [readSet EXCEPT ![r] = TxGet(@, EventDoc(EventId(r)))]
          /\ stockPlans' = [stockPlans EXCEPT ![r] = <<>>]
          /\ idx' = [idx EXCEPT ![r] = 1]
          /\ pc' = [pc EXCEPT ![r] = "txQuery"]
          /\ UNCHANGED <<prodDoc, stale, resp>>
  /\ UNCHANGED <<storeVars, body, quantities, attempts, updatedStocks, sellerVars>>

\* documents come back from a query in the order of their ids
ProdOrder == <<"p1", "p2">>
Rank(p) == CHOOSE i \in 1..Len(ProdOrder) : ProdOrder[i] = p

\* a lookup that forgets the where clause
QueryFirst(name) ==
  LET found == {p \in ProdDocIds : products[p].exists}
  IN IF found = {} THEN NoDoc
     ELSE CHOOSE p \in found : \A q \in found : Rank(p) <= Rank(q)

\* a lookup among the active products only
QueryActive(name) ==
  LET found == {p \in ProdDocIds : /\ products[p].exists /\ products[p].name = name
                                   /\ products[p].status = "active"}
  IN IF found = {} THEN NoDoc
     ELSE CHOOSE p \in found : \A q \in found : Rank(p) <= Rank(q)

\* productsCol.where("name", "==", productName).limit(1).get(): not a tx read
Query(name) ==
  LET found == {p \in ProdDocIds : products[p].exists /\ products[p].name = name}
  IN IF found = {} THEN NoDoc
     ELSE CHOOSE p \in found : \A q \in found : Rank(p) <= Rank(q)

TxQuery(r) ==
  LET productName == quantities[r][idx[r]][1]
  IN /\ pc[r] = "txQuery"
     /\ IF Query(productName) = NoDoc
          THEN Throw(r, ErrProduct("Product not found", productName))
          ELSE /\ prodDoc' = [prodDoc EXCEPT ![r] = Query(productName)]
               /\ pc' = [pc EXCEPT ![r] = "txGetProduct"]
               /\ UNCHANGED <<idx, stockPlans, readSet, stale, resp>>
     /\ UNCHANGED <<storeVars, body, quantities, attempts, updatedStocks, sellerVars>>

InsufficientNever(currentStock, qty) == FALSE

InsufficientOrEqual(currentStock, qty) == currentStock <= qty

\* a stock of 0 taken for no stock at all
InsufficientUnlessEmpty(currentStock, qty) == currentStock > 0 /\ currentStock < qty

Insufficient(currentStock, qty) == currentStock < qty

NewStockKeep(currentStock, qty) == currentStock

NewStock(currentStock, qty) == currentStock - qty

RECURSIVE RecordStocks(_, _)
RecordStocks(stocks, plans) ==
  IF plans = <<>> THEN stocks
  ELSE RecordStocks(FnSet(stocks, plans[1].productName, plans[1].newStock), Tail(plans))

\* a body that decrements nothing of what it checked
StageNothing(plans, plan) == plans

\* stockPlans.push(...): the decrement is staged, nothing is written yet (289)
Stage(plans, plan) == Append(plans, plan)

\* one iteration of the product loop from tx.get(prodRef) on (276-290); after
\* the last one the plans are applied to the write buffer and updatedStocks
\* (292-311), and the body returns
TxGetProduct(r) ==
  LET productName == quantities[r][idx[r]][1]
      qty == quantities[r][idx[r]][2]
      prodData == products[prodDoc[r]]
      plans == IF prodData.tracked
                 THEN Stage(stockPlans[r],
                        [productDocId |-> prodDoc[r], productName |-> productName,
                         newStock |-> NewStock(prodData.stockQty, qty)])
                 ELSE stockPlans[r]
  IN /\ pc[r] = "txGetProduct"
     /\ IF ~prodData.exists THEN Throw(r, ErrProduct("Product missing", productName))
        ELSE IF prodData.tracked /\ Insufficient(prodData.stockQty, qty)
          THEN Throw(r, ErrStock(productName, prodData.stockQty))
        ELSE /\ readSet' = [readSet EXCEPT ![r] = TxGet(@, ProductDoc(prodDoc[r]))]
             /\ stockPlans' = [stockPlans EXCEPT ![r] = plans]
             /\ prodDoc' = [prodDoc EXCEPT ![r] = NoDoc]
             /\ IF idx[r] < Len(quantities[r])
                  THEN /\ idx' = [idx EXCEPT ![r] = @ + 1]
                       /\ pc' = [pc EXCEPT ![r] = "txQuery"]
                  ELSE /\ idx' = [idx EXCEPT ![r] = 0]
                       /\ pc' = [pc EXCEPT ![r] = "txCommit"]
             /\ UNCHANGED <<stale, resp>>
     /\ updatedStocks' =
          [updatedStocks EXCEPT ![r] =
             IF /\ prodData.exists
                /\ ~(prodData.tracked /\ Insufficient(prodData.stockQty, qty))
                /\ idx[r] = Len(quantities[r])
               THEN RecordStocks(@, plans) ELSE @]
     /\ UNCHANGED <<storeVars, body, quantities, attempts, sellerVars>>

\* an order id derived from nothing of the invocation
OrderRefShared(r) == 1

\* eventRef.collection("orders").doc(): a fresh document id, allocated once
\* per invocation, before the transaction (line 255)
OrderRef(r) == r

\* the link stored whatever the delivery mode
LocationLinkAlways(deliveryMode, locationLink) == locationLink

\* deliveryMode === "delivery" ? (locationLink || "") : "" (line 308)
LocationLink(deliveryMode, locationLink) ==
  IF deliveryMode = "delivery" THEN locationLink ELSE <<>>

\* the document of tx.set(orderRef, ...), lines 298-311
OrderDoc(r) ==
  LET b == body[r]
      deliveryMode == DeliveryMode(b.deliveryMode)
  IN [id |-> OrderRef(r),
      eventId |-> EventId(r),
      customerName |-> cleanStr(b.customerName, CustomerNameCap),
      note |-> cleanStr(b.note, NoteCap),
      quantities |-> ObjFn(quantities[r]),
      totalItems |-> TotalItems(quantities[r]),
      status |-> "pending",
      channel |-> b.channel,
      deliveryMode |-> deliveryMode,
      deliveryDate |-> OrDefault(cleanStr(b.deliveryDate, DeliveryDateCap), SemPreferencia),
      deliveryTimeSlot |->
        OrDefault(cleanStr(b.deliveryTimeSlot, DeliveryTimeSlotCap), SemPreferencia),
      locationLink |->
        LocationLink(deliveryMode, cleanStr(b.locationLink, LocationLinkCap))]

ApplyPlansNone(prods, plans) == prods

\* tx.update(prodRef, { stockQty: plan.newStock }) for each plan, in order
RECURSIVE ApplyPlans(_, _)
ApplyPlans(prods, plans) ==
  IF plans = <<>> THEN prods
  ELSE ApplyPlans(
         [prods EXCEPT ![plans[1].productDocId].stockQty = plans[1].newStock,
                       ![plans[1].productDocId].tracked = TRUE],
         Tail(plans))

PlanDocs(plans) == {ProductDoc(plans[i].productDocId) : i \in 1..Len(plans)}

\* a write of the documents docs invalidates the transactions that read them
Invalidate(docs) == [x \in Reqs |-> stale[x] \/ (readSet[x] \cap docs # {})]

RollbackPartial(prods, plans) == ApplyPlans(prods, plans)

\* what a transaction that db.runTransaction rejects leaves of its buffered
\* tx.update and tx.set calls in the store: nothing (259-312)
Rollback(prods, plans) == prods

\* the commit at the end of db.runTransaction (259-312): the store applies
\* the writes only if no document of the read set changed since it was read;
\* otherwise the body is run again from the start (updatedStocks is kept),
\* until the store has run it MaxAttempts times and rejects the transaction,
\* which the catch of lines 315-318 answers
TxCommit(r) ==
  /\ pc[r] = "txCommit"
  /\ IF stale[r] /\ attempts[r] < MaxAttempts
       THEN /\ attempts' = [attempts EXCEPT ![r] = @ + 1]
            /\ pc' = [pc EXCEPT ![r] = "txGetEvent"]
            /\ stockPlans' = [stockPlans EXCEPT ![r] = <<>>]
            /\ readSet' = [readSet EXCEPT ![r] = {}]
            /\ stale' = [stale EXCEPT ![r] = FALSE]
            /\ UNCHANGED <<storeVars, resp>>
       ELSE IF stale[r]
       THEN /\ resp' = [resp EXCEPT ![r] = Failure(400, Err("Transaction contention"))]
            /\ pc' = [pc EXCEPT ![r] = "done"]
            /\ products' = Rollback(products, stockPlans[r])
            /\ stockPlans' = [stockPlans EXCEPT ![r] = <<>>]
            /\ readSet' = [readSet EXCEPT ![r] = {}]
            /\ stale' = [stale EXCEPT ![r] = FALSE]
            /\ UNCHANGED <<events, orders, attempts>>
       ELSE /\ products' = ApplyPlans(products, stockPlans[r])
            /\ orders' = orders \cup {OrderDoc(r)}
            /\ resp' = [resp EXCEPT ![r] = Success(OrderRef(r), updatedStocks[r])]
            /\ pc' = [pc EXCEPT ![r] = "done"]
            /\ stockPlans' = [stockPlans EXCEPT ![r] = <<>>]
            /\ readSet' = [readSet EXCEPT ![r] = {}]
            /\ stale' = [Invalidate(PlanDocs(stockPlans[r])) EXCEPT ![r] = FALSE]
            /\ UNCHANGED <<events, attempts>>
  /\ UNCHANGED <<body, quantities, idx, prodDoc, updatedStocks, sellerVars>>

\* a read, the query or the commit of the running transaction fails in the
\* store (nothing of it is applied): db.runTransaction rejects and the catch
\* of lines 315-318 answers 400 with the message of the store
StorageFails(r) ==
  /\ pc[r] \in {"txGetEvent", "txQuery", "txGetProduct", "txCommit"}
  /\ Throw(r, Err("Storage unavailable"))
  /\ products' = Rollback(products, stockPlans[r])
  /\ UNCHANGED <<events, orders, body, quantities, attempts, updatedStocks, sellerVars,
                 pageVars>>

(* --------------------------- seller dashboard ------------------------- *)
Blank == -1
StockField == {Blank} \cup 0..MaxStock

\* handleSubmitProduct with editingProductId set: updateDoc(ref, payload)
\* (dashboard/page.tsx 635-699); stockField is the stock input, Blank when empty
SellerSubmitProduct(p, name, stockField, productStatus) ==
  /\ sellerOps < MaxSellerOps
  /\ products[p].exists
  /\ products' =
       [products EXCEPT ![p] =
          [exists |-> TRUE,
           name |-> name,
           tracked |-> IF stockField = Blank THEN @.tracked ELSE TRUE,
           stockQty |-> IF stockField = Blank THEN @.stockQty ELSE stockField,
           status |-> IF stockField # Blank /\ stockField <= 0 THEN "inactive"
                      ELSE productStatus]]
  /\ stale' = Invalidate({ProductDoc(p)})
  /\ sellerOps' = sellerOps + 1
  /\ stockEdited' = (stockEdited \/ stockField # Blank)
  /\ renamed' = (renamed \/ name # products[p].name)
  /\ UNCHANGED <<events, orders, pc, body, quantities, idx, prodDoc, stockPlans,
                 readSet, attempts, updatedStocks, resp, initial>>

\* handleDeleteProduct (dashboard/page.tsx 701-715)
SellerDeleteProduct(p) ==
  /\ sellerOps < MaxSellerOps
  /\ products[p].exists
  /\ products' = [products EXCEPT ![p].exists = FALSE]
  /\ stale' = Invalidate({ProductDoc(p)})
  /\ sellerOps' = sellerOps + 1
  /\ stockEdited' = TRUE
  /\ UNCHANGED <<events, orders, pc, body, quantities, idx, prodDoc, stockPlans,
                 readSet, attempts, updatedStocks, resp, renamed, initial>>

\* handleSubmitEvent with editingEventId set (dashboard/page.tsx 764-821)
SellerSubmitEvent(e, eventStatus) ==
  /\ sellerOps < MaxSellerOps
  /\ events[e].exists
  /\ events' = [events EXCEPT ![e].status = eventStatus]
  /\ stale' = Invalidate({EventDoc(e)})
  /\ sellerOps' = sellerOps + 1
  /\ UNCHANGED <<products, orders, pc, body, quantities, idx, prodDoc, stockPlans,
                 readSet, attempts, updatedStocks, resp, stockEdited, renamed, initial>>

\* handleDeleteEvent (dashboard/page.tsx 823-838)
SellerDeleteEvent(e) ==
  /\ sellerOps < MaxSellerOps
  /\ events[e].exists
  /\ events' = [events EXCEPT ![e].exists = FALSE]
  /\ stale' = Invalidate({EventDoc(e)})
  /\ sellerOps' = sellerOps + 1
  /\ UNCHANGED <<products, orders, pc, body, quantities, idx, prodDoc, stockPlans,
                 readSet, attempts, updatedStocks, resp, stockEdited, renamed, initial>>

(* ------------------------------ requests ------------------------------ *)
BaseBody ==
  [method |-> "POST", eventId |-> Str(E1), channel |-> "whatsapp",
   customerName |-> Str(<<"Ana">>), note |-> Undefined,
   deliveryMode |-> "pickup", deliveryDate |-> Undefined,
   deliveryTimeSlot |-> Undefined, locationLink |-> Undefined,
   quantities |-> Obj(<<>>)]

\* the carts of the concurrent specifications: whole quantities of Coxinha,
\* alone or followed by Kibe
Carts ==
  {Obj(<<<<Coxinha, Num(2 * q)>>>>) : q \in 1..MaxQty}
    \cup {Obj(<<<<Coxinha, Num(2)>>, <<Kibe, Num(2 * q)>>>>) : q \in 1..MaxQty}

Bodies == {[BaseBody EXCEPT !.quantities = c] : c \in Carts}

\* the steps of invocation r, its request body being one of B
Invocation(r, B) ==
  /\ \/ Receive(r, B)
     \/ TxGetEvent(r)
     \/ TxQuery(r)
     \/ TxGetProduct(r)
     \/ TxCommit(r)
  /\ UNCHANGED pageVars

\* the writes of the seller dashboard
Seller ==
  /\ \/ \E p \in ProdDocIds, n \in Names, s \in StockField, st \in {"active", "inactive"} :
          SellerSubmitProduct(p, n, s, st)
     \/ \E p \in ProdDocIds : SellerDeleteProduct(p)
     \/ \E e \in EventDocIds, st \in {"active", "closed", "cancelled"} :
          SellerSubmitEvent(e, st)
     \/ \E e \in EventDocIds : SellerDeleteEvent(e)
  /\ UNCHANGED pageVars

\* concurrent invocations and the seller
Next == (\E r \in Reqs : Invocation(r, Bodies)) \/ Seller

Spec == Init /\ [][Next]_vars

\* concurrent invocations, the seller away
NextOrders == \E r \in Reqs : Invocation(r, Bodies)

SpecOrders == Init /\ [][NextOrders]_vars

\* one invocation and the seller, who keeps one of the writes in hand
NextSeller == Invocation(1, Bodies) \/ (sellerOps < MaxSellerOps - 1 /\ Seller)

SpecSeller == Init /\ [][NextSeller]_vars

\* no two product documents bear the same name
UniqueNames ==
  \A p, q \in ProdDocIds :
    (p # q /\ products[p].exists /\ products[q].exists) => products[p].name # products[q].name

\* one invocation and the seller reworking the catalogue, never giving two
\* products the same name
NextCatalogue == Invocation(1, Bodies) \/ (Seller /\ UniqueNames')

SpecCatalogue == Init /\ [][NextCatalogue]_vars

\* the seller setting the stock of a product, its name and status kept
SellerSetsStock ==
  /\ \E p \in ProdDocIds, s \in 0..MaxStock :
       SellerSubmitProduct(p, products[p].name, s, products[p].status)
  /\ UNCHANGED pageVars

\* one invocation whose storage operations may fail, and the seller setting
\* stocks meanwhile
NextFaults == Invocation(1, Bodies) \/ StorageFails(1) \/ SellerSetsStock

SpecFaults == Init /\ [][NextFaults]_vars

(* --------- one invocation at a time, over raw request bodies ---------- *)
\* Pastel is the name of no product
Pastel == <<"Pastel">>
RawKeys == {Coxinha, <<Sp, "Coxinha">>, Kibe, Pastel, <<Sp>>}

\* -1.5, 0, 0.5, 1, 1.5, 2, 999.5, 1000, a value Number() maps to NaN, Infinity
RawQtys == {Num(-3), Num(0), Num(1), Num(2), Num(3), Num(4), Num(1999), Num(2000),
            NaN, Infinity}

RawEntries == {<<k, q>> : k \in RawKeys, q \in RawQtys}

\* an object literal has no key twice
RawCarts ==
  {Obj(o) : o \in {o \in UNION {[1..n -> RawEntries] : n \in 0..MaxEntries} :
                     \A i, j \in 1..Len(o) : i # j => o[i][1] # o[j][1]}}

GateBodies ==
  {[BaseBody EXCEPT !.method = m, !.eventId = e, !.channel = c, !.quantities = q] :
     m \in {"POST", "GET", "PUT", "OPTIONS"},
     e \in {Undefined, Str(<<>>), Str(<<Sp>>), Str(E1), Str(<<Sp, "e1">>), Str(E2)},
     c \in {"whatsapp", "messenger", "sms", ""},
     q \in {Undefined, Null, Arr, Str(<<"x">>), Obj(<<>>), Obj(<<<<Coxinha, Num(2)>>>>)}}

CartBodies == {[BaseBody EXCEPT !.quantities = c] : c \in RawCarts}

\* a deliveryMode of "" stands for the absent field
DeliveryBodies ==
  {[BaseBody EXCEPT !.quantities = Obj(<<<<Kibe, Num(2)>>>>), !.deliveryMode = d,
                    !.locationLink = l, !.deliveryDate = t] :
     d \in {"delivery", "pickup", "none", "", "express"},
     l \in {Undefined, Str(<<>>), Str(<<Sp, "maps">>)},
     t \in {Undefined, Str(<<"sabado">>)}}

InputBodies == GateBodies \cup CartBodies \cup DeliveryBodies

NextInput == Invocation(1, InputBodies)

SpecInput == Init /\ [][NextInput]_vars

\* orders for the event of the store or for one it does not hold, of the
\* products of the catalogue or of one it does not hold
EventBodies ==
  {[BaseBody EXCEPT !.eventId = Str(e), !.quantities = c] :
     e \in {E1, E2},
     c \in Carts \cup {Obj(<<<<Kibe, Num(2)>>>>),
                       Obj(<<<<Coxinha, Num(2)>>, <<Pastel, Num(2)>>>>)}}

\* one invocation, over the events and products of InitEvents
NextEvents == Invocation(1, EventBodies)

SpecEvents == InitEvents /\ [][NextEvents]_vars

(* ------------- event page: registerOrderInFirestore ------------------- *)
\* getOrderableProductNames(): the names the event lists, in its order; the
\* last one has no product document
OrderableNames == <<Coxinha, Kibe, Pastel>>

\* productsData[name]?.productDocId, as the page loaded it from the catalogue
ProductDocIdOf(name) ==
  IF name = Coxinha THEN "p1" ELSE IF name = Kibe THEN "p2" ELSE NoDoc

\* the quantities the customer may have entered
FormQuantities == [{Coxinha, Kibe} -> 0..MaxQty] \X (0..1)

\* quantitiesClean: the orderable names of positive quantity, in order
RECURSIVE CleanForm(_, _)
CleanForm(names, q) ==
  IF names = <<>> THEN <<>>
  ELSE (IF q[Head(names)] > 0 THEN <<<<Head(names), q[Head(names)]>>>> ELSE <<>>)
         \o CleanForm(Tail(names), q)

\* the transaction has a write in its buffer: it then rejects transaction.get
WriteIssued(ops) == \E i \in 1..Len(ops) : ops[i].op \in {"update", "set"}

TxOp(op, doc, value) == [op |-> op, doc |-> doc, value |-> value]

\* lines 504-525: the cart is cleaned, an empty one throws
RegisterOrderInFirestore(q) ==
  /\ txPc = "idle"
  /\ quantitiesClean' = CleanForm(OrderableNames, q)
  /\ txOps' = <<>>
  /\ IF SumValues(quantitiesClean') = 0
       THEN /\ txError' = "Selecione pelo menos 1 produto com quantidade."
            /\ txPc' = "done"
            /\ txIdx' = 0
       ELSE /\ txError' = ""
            /\ txPc' = "loop"
            /\ txIdx' = 1
  /\ UNCHANGED <<storeVars, functionVars, sendVars, driverVars>>

\* the Error ends the transaction and the handler
ClientThrow(ops, msg) ==
  /\ txOps' = ops
  /\ txError' = msg
  /\ txPc' = "done"
  /\ txIdx' = 0

\* the loop goes on with the next entry; after the last one the order is
\* written to the transaction (569-583) and the body returns
ClientContinue(ops) ==
  /\ txError' = txError
  /\ IF txIdx < Len(quantitiesClean)
       THEN /\ txIdx' = txIdx + 1
            /\ txPc' = "loop"
            /\ txOps' = ops
       ELSE /\ txIdx' = 0
            /\ txPc' = "commit"
            /\ txOps' = Append(ops, TxOp("set", "order", 0))

\* one iteration of the loop of lines 533-566
ClientLoop ==
  LET productName == quantitiesClean[txIdx][1]
      q == quantitiesClean[txIdx][2]
      docId == ProductDocIdOf(productName)
      got == Append(txOps, TxOp("get", docId, 0))
  IN /\ txPc = "loop"
     /\ IF docId = NoDoc THEN ClientContinue(txOps)
        ELSE IF WriteIssued(txOps)
          THEN ClientThrow(got, "Firestore transactions require all reads to be executed before all writes.")
        ELSE IF ~products[docId].exists THEN ClientThrow(got, "Produto nao encontrado.")
        ELSE IF ~products[docId].tracked THEN ClientContinue(got)
        ELSE IF products[docId].stockQty < q THEN ClientThrow(got, "Estoque insuficiente")
        ELSE ClientContinue(Append(got, TxOp("update", docId, products[docId].stockQty - q)))
     /\ UNCHANGED <<quantitiesClean, storeVars, functionVars, sendVars, driverVars>>

\* the updates of the buffer, as stock plans
RECURSIVE UpdatesOf(_)
UpdatesOf(ops) ==
  IF ops = <<>> THEN <<>>
  ELSE (IF Head(ops).op = "update"
          THEN <<[productDocId |-> Head(ops).doc, productName |-> <<>>,
                  newStock |-> Head(ops).value]>>
          ELSE <<>>) \o UpdatesOf(Tail(ops))

\* the order document of lines 570-582, the form left at its defaults
ClientOrderDoc ==
  [id |-> 0, eventId |-> E1, customerName |-> <<>>, note |-> <<>>,
   quantities |-> ObjFn(quantitiesClean), totalItems |-> SumValues(quantitiesClean),
   status |-> "pending", channel |-> "whatsapp", deliveryMode |-> "pickup",
   deliveryDate |-> SemPreferencia, deliveryTimeSlot |-> SemPreferencia,
   locationLink |-> <<>>]

\* the commit at the end of runTransaction (531-583)
ClientCommit ==
  /\ txPc = "commit"
  /\ products' = ApplyPlans(products, UpdatesOf(txOps))
  /\ orders' = orders \cup {ClientOrderDoc}
  /\ txPc' = "done"
  /\ UNCHANGED <<events, functionVars, quantitiesClean, txIdx, txOps, txError, sendVars,
                 driverVars>>

NextClientTx ==
  \/ \E q \in FormQuantities :
       RegisterOrderInFirestore([n \in {Coxinha, Kibe, Pastel} |->
                                   IF n = Pastel THEN q[2] ELSE q[1][n]])
  \/ ClientLoop
  \/ ClientCommit

SpecClientTx == Init /\ [][NextClientTx]_vars

(* ------------- event page: registerOrder, handleSend ------------------ *)
\* adjustQuantity (1000-1012): the quantity never goes below 0 nor above the
\* stock the page knows of
AdjustQuantity(product, delta) ==
  LET next == formQuantities[product] + delta
      info == productsData[product]
  IN /\ next <= MaxQty
     /\ formQuantities' =
          [formQuantities EXCEPT ![product] =
             IF next < 0 THEN @
             ELSE IF info.tracked /\ next > info.stockQty THEN info.stockQty
             ELSE next]
     /\ UNCHANGED <<sendPc, productsData, linkOpened, formWasReset, alertShown,
                    fetchOutcome, clientTxVars, driverVars, storeVars, functionVars>>

\* orderableNames.some((p) => (quantities[p] || 0) > 0)
HasItems(q) == \E n \in DOMAIN q : q[n] > 0

\* handleSendWhatsApp / handleSendMessenger up to the await of the fetch
\* (1212-1233, 1241-1261, 1130-1167): contact says whether the event has
\* the number or id of the channel, url whether the endpoint is configured
HandleSend(channel, contact, url) ==
  /\ sendPc = "form"
  /\ linkOpened' = FALSE
  /\ formWasReset' = FALSE
  /\ fetchOutcome' = [kind |-> "none"]
  /\ IF ~contact
       THEN alertShown' = "Nenhum contato configurado para este evento."
     ELSE IF ~HasItems(formQuantities)
       THEN alertShown' = "Selecione pelo menos 1 produto com quantidade."
     ELSE IF ~url
       THEN alertShown' = "Configuracao ausente."
     ELSE alertShown' = ""
  /\ sendPc' = IF contact /\ HasItems(formQuantities) /\ url THEN "awaiting" ELSE "form"
  /\ UNCHANGED <<formQuantities, productsData, clientTxVars, driverVars, storeVars,
                 functionVars>>

\* the ways the fetch of lines 1162-1177 ends: a response, of an HTTP status
\* in 200-299 or not, whose body parses to {ok: true, updatedStocks}, to
\* {ok: false, error} or to nothing; the abort of the timer; a network error
UpdatedStocksSent == {<<>>, [n \in {Coxinha} |-> 0], [n \in {Coxinha} |-> 1]}

FetchOutcomes ==
  {[kind |-> "response", respOk |-> h, data |-> d, updatedStocks |-> u] :
     h \in BOOLEAN, d \in {"okTrue", "okFalse", "null"}, u \in UpdatedStocksSent}
    \cup {[kind |-> "abort"], [kind |-> "network"]}

\* a success taken from the HTTP status alone
RegisteredHttpOnly(outcome) == outcome.kind = "response" /\ outcome.respOk

\* registerOrder returns instead of throwing (1162-1185)
Registered(outcome) ==
  outcome.kind = "response" /\ outcome.respOk /\ outcome.data = "okTrue"

\* the message of the Error registerOrder throws (1169-1185)
RegisterError(outcome, inApp) ==
  IF outcome.kind # "response"
    THEN (IF inApp THEN "O navegador do Facebook/Instagram pode bloquear o envio."
          ELSE "Falha de rede ao registrar pedido.")
  ELSE IF outcome.data = "okFalse" THEN "Insufficient stock"
  ELSE "Erro ao registrar pedido."

\* setProductsData of lines 1187-1202
ApplyUpdatedStocks(data, stocks) ==
  [n \in DOMAIN data |->
     IF n \in DOMAIN stocks
       THEN [tracked |-> TRUE, stockQty |-> stocks[n],
             status |-> IF stocks[n] <= 0 THEN "inactive" ELSE data[n].status]
       ELSE data[n]]

\* resetForm (1102-1126), of which the model keeps the quantities
ResetForm(q) == [n \in DOMAIN q |-> 0]

\* the fetch ends and the handler runs to its end (1162-1208, 1230-1237)
FetchSettles(outcome, inApp) ==
  /\ sendPc = "awaiting"
  /\ sendPc' = "form"
  /\ fetchOutcome' = outcome
  /\ IF Registered(outcome)
       THEN /\ productsData' = ApplyUpdatedStocks(productsData, outcome.updatedStocks)
            /\ formQuantities' = ResetForm(formQuantities)
            /\ formWasReset' = TRUE
            /\ linkOpened' = TRUE
            /\ alertShown' = ""
       ELSE /\ alertShown' = RegisterError(outcome, inApp)
            /\ UNCHANGED <<productsData, formQuantities, formWasReset, linkOpened>>
  /\ UNCHANGED <<clientTxVars, driverVars, storeVars, functionVars>>

NextSend ==
  \/ \E n \in Names, d \in {-1, 1} : AdjustQuantity(n, d)
  \/ \E c \in {"whatsapp", "messenger"}, contact \in BOOLEAN, url \in BOOLEAN :
       HandleSend(c, contact, url)
  \/ \E o \in FetchOutcomes, inApp \in BOOLEAN : FetchSettles(o, inApp)

SpecSend == Init /\ [][NextSend]_vars

(* ------------------- driver view: EntregasPage ------------------------ *)
DriverNames == {<<>>, <<Sp>>, <<"Ze">>, <<Sp, "Ze">>}

\* the name field is edited
SetDriverName(name) ==
  /\ driverName' = name
  /\ lastToggle' = NoToggle
  /\ UNCHANGED <<storedOrders, driverOrders, deliveredOrderIds, toggles, toggledSinceLoad,
                 clientTxVars, sendVars, storeVars, functionVars>>

\* deliveredFromDb of loadData (188-193)
DeliveredFromDb(os) ==
  {o \in DOMAIN os : os[o].status = "delivered" \/ Len(os[o].deliveryDriverName) # 0}

\* loadData (104-200), run when the page is opened
LoadData ==
  /\ driverOrders' = storedOrders
  /\ deliveredOrderIds' = DeliveredFromDb(storedOrders)
  /\ lastToggle' = NoToggle
  /\ toggledSinceLoad' = FALSE
  /\ UNCHANGED <<storedOrders, driverName, toggles, clientTxVars, sendVars, storeVars,
                 functionVars>>

\* handleToggleDelivered (255-321); updated says whether updateDoc resolved
HandleToggleDelivered(order, updated) ==
  LET alreadyDelivered == order \in deliveredOrderIds
      marked == [status |-> "delivered", deliveryDriverName |-> Trim(driverName)]
      unmarked == [status |-> "confirmed", deliveryDriverName |-> <<>>]
  IN /\ toggles < MaxToggles
     /\ toggles' = toggles + 1
     /\ IF Trim(driverName) = <<>> \/ ~updated
          THEN /\ lastToggle' = [order |-> order, wrote |-> FALSE]
               /\ UNCHANGED <<storedOrders, driverOrders, deliveredOrderIds,
                              toggledSinceLoad>>
          ELSE /\ lastToggle' = [order |-> order, wrote |-> TRUE]
               /\ toggledSinceLoad' = TRUE
               /\ IF ~alreadyDelivered
                    THEN /\ storedOrders' = [storedOrders EXCEPT ![order] = marked]
                         /\ deliveredOrderIds' = deliveredOrderIds \cup {order}
                         /\ driverOrders' = [driverOrders EXCEPT ![order] = marked]
                    ELSE /\ storedOrders' = [storedOrders EXCEPT ![order] = unmarked]
                         /\ deliveredOrderIds' = deliveredOrderIds \ {order}
                         /\ driverOrders' = [driverOrders EXCEPT ![order] = unmarked]
     /\ UNCHANGED <<driverName, clientTxVars, sendVars, storeVars, functionVars>>

\* handleChangeOrderStatus of the dashboard (dashboard/page.tsx 842-853):
\* the status is written, the driver name left as it is
HandleChangeOrderStatus(order, newStatus) ==
  /\ storedOrders' = [storedOrders EXCEPT ![order].status = newStatus]
  /\ lastToggle' = NoToggle
  /\ UNCHANGED <<driverOrders, deliveredOrderIds, driverName, toggles, toggledSinceLoad,
                 clientTxVars, sendVars, storeVars, functionVars>>

NextDriver ==
  \/ \E n \in DriverNames : SetDriverName(n)
  \/ LoadData
  \/ \E o \in DriverOrderIds, u \in BOOLEAN : HandleToggleDelivered(o, u)
  \/ \E o \in DriverOrderIds, st \in {"pending", "confirmed", "delivered", "cancelled"} :
       HandleChangeOrderStatus(o, st)

SpecDriver == Init /\ [][NextDriver]_vars

(* ====================================================================== *)
(*                               properties                               *)
(* ====================================================================== *)
OrderIds(os) == {o.id : o \in os}
HasOrder(r) == r \in OrderIds(orders)

\* the step is the commit of invocation r
Commits(r) == r \notin OrderIds(orders) /\ r \in OrderIds(orders')

\* the step ends invocation r
Finishes(r) == pc[r] # "done" /\ pc'[r] = "done"

\* invocation r has a cleaned cart with quantity q of the product named n
Asks(r, n, q) == n \in Keys(quantities[r]) /\ ObjGet(quantities[r], n) = q

\* ... and of nothing else
AsksOnly(r, n, q) == quantities[r] = <<<<n, q>>>>

RECURSIVE SumOver(_, _)
SumOver(os, n) ==
  IF os = {} THEN 0
  ELSE LET o == CHOOSE x \in os : TRUE
       IN (IF n \in DOMAIN o.quantities THEN o.quantities[n] ELSE 0)
            + SumOver(os \ {o}, n)

\* units of the product named n in the stored orders
Ordered(n) == SumOver(orders, n)

\* the seller neither wrote a stock, nor deleted or renamed a product
CatalogueUntouched == ~stockEdited /\ ~renamed

\* C1: two invocations that each ask for 1 unit of a product whose tracked
\* stock is 1 never both commit an order, however their reads, retries and
\* commits interleave (the seller leaving the catalogue alone).
C1_NoOverselling ==
  \A p \in ProdDocIds : \A r1, r2 \in Reqs :
    ( /\ r1 # r2
      /\ CatalogueUntouched
      /\ initial[p].tracked /\ initial[p].stockQty = 1
      /\ Asks(r1, initial[p].name, 1)
      /\ Asks(r2, initial[p].name, 1) )
    => ~(HasOrder(r1) /\ HasOrder(r2))

\* both asked for the last unit, one committed, the other ran its body twice
C1_Witness ==
  \E p \in ProdDocIds : \E r1, r2 \in Reqs :
    /\ r1 # r2 /\ CatalogueUntouched
    /\ initial[p].tracked /\ initial[p].stockQty = 1
    /\ Asks(r1, initial[p].name, 1) /\ Asks(r2, initial[p].name, 1)
    /\ HasOrder(r1) /\ pc[r2] = "done" /\ ~HasOrder(r2) /\ attempts[r2] = 2

\* C2: as long as the seller leaves the catalogue alone, in every state the
\* stock taken from each tracked product equals the units of it in the stored
\* orders: no decrement without its order, no order without its decrements.
C2_Conservation ==
  CatalogueUntouched =>
    \A p \in ProdDocIds :
      products[p].tracked =>
        initial[p].stockQty - products[p].stockQty = Ordered(products[p].name)

\* one order of 1 Coxinha and 2 Kibe is stored and paid for in stock, while
\* another invocation has staged its decrements and not yet committed
C2_Witness ==
  /\ CatalogueUntouched
  /\ Cardinality(orders) = 1
  /\ Ordered(Coxinha) = 1 /\ Ordered(Kibe) = 2
  /\ products["p2"].tracked
  /\ \E r \in Reqs : pc[r] = "txCommit" /\ stockPlans[r] # <<>>

\* C3: a commit leaves each tracked product of its cart with the stock it
\* had just before the commit minus the quantity asked (no product being
\* renamed meanwhile), and no tracked stock is ever negative.
C3_StockArithmetic ==
  [][ /\ \A p \in ProdDocIds :
           (products[p].exists /\ products[p].tracked => products[p].stockQty >= 0)'
      /\ \A r \in Reqs :
           (Commits(r) /\ ~renamed) =>
             \A i \in 1..Len(quantities[r]) :
               LET n == quantities[r][i][1]
                   q == quantities[r][i][2]
               IN (Query(n) # NoDoc /\ products[Query(n)].tracked) =>
                    products'[Query(n)].stockQty = products[Query(n)].stockQty - q ]_vars

\* two orders in a row emptied a stock of 2
C3_Witness ==
  /\ ~renamed /\ ~stockEdited
  /\ \A r \in Reqs : HasOrder(r) /\ Asks(r, Coxinha, 1)
  /\ initial["p1"].stockQty = NumReq
  /\ products["p1"].stockQty = 0

C5_LoserInsufficient ==
  \A p \in ProdDocIds : \A r1, r2 \in Reqs :
    ( /\ r1 # r2
      /\ sellerOps = 0
      /\ initial[p].tracked /\ initial[p].stockQty = 1
      /\ AsksOnly(r1, initial[p].name, 1) /\ AsksOnly(r2, initial[p].name, 1)
      /\ pc[r1] = "done" /\ pc[r2] = "done" )
    => \A r \in {r1, r2} :
         ~HasOrder(r) =>
           resp[r] = [status |-> 400, ok |-> FALSE,
                      error |-> [msg |-> "Insufficient stock",
                                 product |-> initial[p].name, left |-> 0]]

\* the loser was answered at its second attempt, the winner has its order
C5_Witness ==
  \E r1, r2 \in Reqs :
    /\ r1 # r2 /\ sellerOps = 0
    /\ initial["p1"].stockQty = 1
    /\ AsksOnly(r1, Coxinha, 1) /\ AsksOnly(r2, Coxinha, 1)
    /\ HasOrder(r1) /\ pc[r2] = "done" /\ attempts[r2] = 2
    /\ resp[r2].status = 400

\* C6: an invocation that ends while its event has no document or is closed
\* or cancelled, ends rejected, and its last step changes neither a product
\* nor the orders; so no order is committed for an event the seller closed
\* before the commit.
C6_OnlyActiveEvents ==
  [][ \A r \in Reqs :
        LET id == cleanStr(body'[r].eventId, EventIdCap)
        IN ( /\ Finishes(r)
             /\ \/ id \notin DOMAIN events
                \/ ~events[id].exists
                \/ events[id].status \in {"closed", "cancelled"} )
           => /\ resp'[r].ok = FALSE
              /\ products' = products
              /\ orders' = orders ]_vars

\* the seller closed the event while the transaction ran: its commit was
\* refused, the second run of the body found the event not active
C6_Witness ==
  \E r \in Reqs :
    /\ pc[r] = "done" /\ attempts[r] = 2
    /\ resp[r] = Failure(400, Err("Event is not active"))
    /\ events[E1].status = "cancelled"
    /\ orders = {} /\ products = initial

\* C7: when the product loop reads a tracked stock below the quantity asked,
\* the invocation ends there with "Insufficient stock" naming that product
\* and that stock, and neither a product (those checked before included)
\* nor the orders change; and an order is committed only when every tracked
\* product of its cart has at least the quantity asked (no product being
\* renamed meanwhile).
C7_InsufficientAborts ==
  [][ \A r \in Reqs :
        /\ LET n == quantities[r][idx[r]][1]
               q == quantities[r][idx[r]][2]
               prodData == products[prodDoc[r]]
           IN ( /\ pc[r] = "txGetProduct" /\ pc'[r] # "txGetProduct"
                /\ prodData.exists /\ prodData.tracked /\ prodData.stockQty < q )
              => /\ pc'[r] = "done"
                 /\ resp'[r] =
                      [status |-> 400, ok |-> FALSE,
                       error |-> [msg |-> "Insufficient stock", product |-> n,
                                  left |-> prodData.stockQty]]
                 /\ products' = products
                 /\ orders' = orders
        /\ (Commits(r) /\ ~renamed) =>
             \A i \in 1..Len(quantities[r]) :
               LET p == Query(quantities[r][i][1])
               IN (p # NoDoc /\ products[p].tracked) =>
                    products[p].stockQty >= quantities[r][i][2] ]_vars

\* a cart of two: Coxinha had enough and was staged, Kibe had 1 for 2 asked
C7_Witness ==
  \E r \in Reqs :
    /\ pc[r] = "done" /\ sellerOps = 0
    /\ quantities[r] = <<<<Coxinha, 1>>, <<Kibe, 2>>>>
    /\ resp[r].error = [msg |-> "Insufficient stock", product |-> Kibe, left |-> 1]
    /\ products["p1"].stockQty = 2
    /\ products = initial /\ orders = {}

RECURSIVE SumFn(_)
SumFn(f) ==
  IF DOMAIN f = {} THEN 0
  ELSE LET k == CHOOSE x \in DOMAIN f : TRUE
       IN f[k] + SumFn([x \in (DOMAIN f) \ {k} |-> f[x]])

\* C8: the totalItems of every stored order is the sum of the quantities of
\* its quantities mapping.
C8_TotalItems == \A o \in orders : o.totalItems = SumFn(o.quantities)

\* an order of two products, 1 Coxinha and the ceiling of Kibe
C8_Witness ==
  \E o \in orders :
    /\ DOMAIN o.quantities = {Coxinha, Kibe}
    /\ o.quantities[Coxinha] = 1
    /\ o.totalItems = 1000

\* C9: every stored order has at least one product, and each of its
\* quantities is a whole number from 1 to the ceiling of 999.
C9_PositiveQuantities ==
  \A o \in orders :
    /\ DOMAIN o.quantities # {}
    /\ \A n \in DOMAIN o.quantities : o.quantities[n] \in 1..QtyMax

\* 1000 Kibe and 1.5 Coxinha were asked; 999 and 1 are stored
C9_Witness ==
  /\ HasOrder(1)
  /\ body[1].quantities = Obj(<<<<Kibe, Num(2000)>>, <<Coxinha, Num(3)>>>>)
  /\ \E o \in orders : o.quantities[Kibe] = 999 /\ o.quantities[Coxinha] = 1

\* the request passes the checks made before the quantities are cleaned
PassesGate(b) ==
  /\ b.method = "POST"
  /\ b.eventId.t = "string" /\ Trim(b.eventId.v) # <<>>
  /\ b.channel \in {"whatsapp", "messenger"}

\* the quantities payload is a mapping with no quantity of 1 or more
NothingAsked(b) ==
  /\ b.quantities.t = "object"
  /\ \A i \in 1..Len(b.quantities.entries) :
       LET q == b.quantities.entries[i][2]
       IN ~(q.t = "number" /\ q.h >= 2)

\* C10: a request whose quantities mapping is empty or holds no quantity of
\* 1 or more is answered 400 "Select at least 1 item"; no transaction is
\* started, nothing is read and nothing is written.
C10_NothingAskedRejected ==
  \A r \in Reqs :
    (body[r] # NoBody /\ PassesGate(body[r]) /\ NothingAsked(body[r])) =>
      /\ pc[r] = "done"
      /\ resp[r] = [status |-> 400, ok |-> FALSE,
                    error |-> [msg |-> "Select at least 1 item", product |-> <<>>,
                               left |-> 0]]
      /\ attempts[r] = 0 /\ readSet[r] = {}
      /\ products = initial /\ orders = {}

\* 0 Coxinha and a Kibe quantity that is not a number were asked
C10_Witness ==
  /\ body[1] # NoBody
  /\ body[1].quantities = Obj(<<<<Coxinha, Num(0)>>, <<Kibe, NaN>>>>)
  /\ pc[1] = "done"
  /\ resp[1].status = 400

\* C11: the updatedStocks of a success response maps exactly the products
\* the commit decremented, each to the stock the commit wrote, and holds
\* nothing else, however often the transaction body ran.
C11_ExactStocks ==
  [][ \A r \in Reqs :
        Commits(r) =>
          /\ resp'[r].ok
          /\ resp'[r].updatedStocks = RecordStocks(<<>>, stockPlans[r]) ]_vars

RECURSIVE TakenBy(_, _)
\* units of the product named n asked by the invocations of rs answered 200
TakenBy(rs, n) ==
  IF rs = {} THEN 0
  ELSE LET r == CHOOSE x \in rs : TRUE
       IN (IF resp[r].status = 200 /\ n \in Keys(quantities[r])
             THEN ObjGet(quantities[r], n) ELSE 0)
            + TakenBy(rs \ {r}, n)

\* C12: every invocation answered 200 has exactly one order document, the
\* others none, however often their bodies ran; the orders are as many as
\* the successes (identical submissions are not merged), and each tracked
\* stock went down by what the successful invocations asked, once each (the
\* seller leaving the catalogue alone).
C12_OneOrderEach ==
  /\ \A r \in Reqs :
       Cardinality({o \in orders : o.id = r}) = IF resp[r].status = 200 THEN 1 ELSE 0
  /\ Cardinality(orders) = Cardinality({r \in Reqs : resp[r].status = 200})
  /\ \A p \in ProdDocIds :
       (CatalogueUntouched /\ initial[p].tracked) =>
         initial[p].stockQty - products[p].stockQty = TakenBy(Reqs, initial[p].name)

\* the same submission twice, the second committed at its second attempt:
\* two orders that differ in their id only, and the stock paid twice
C12_Witness ==
  \E r1, r2 \in Reqs :
    /\ r1 # r2 /\ body[r1] = body[r2]
    /\ resp[r1].status = 200 /\ resp[r2].status = 200 /\ attempts[r2] = 2
    /\ \E o1, o2 \in orders :
         o1.id # o2.id /\ [o1 EXCEPT !.id = o2.id] = o2
    /\ initial["p1"].stockQty - products["p1"].stockQty = 2 * ObjGet(quantities[r1], Coxinha)

\* the names of the staged decrements
PlanNames(plans) == {plans[j].productName : j \in 1..Len(plans)}

\* C13: a product read without a tracked stock never stops the invocation,
\* whatever the quantity; a commit writes no product document that has no
\* tracked stock, its response lists no cart name whose product the
\* committed run read without a tracked stock, and the tracked products it
\* read had the quantity asked and are decremented.
C13_UntrackedSkipped ==
  [][ \A r \in Reqs :
        /\ ( /\ pc[r] = "txGetProduct"
              /\ pc'[r] # "txGetProduct"
              /\ products[prodDoc[r]].exists
              /\ ~products[prodDoc[r]].tracked )
             => pc'[r] \in {"txQuery", "txCommit"}
        /\ Commits(r) =>
             /\ \A p \in ProdDocIds : ~products[p].tracked => products'[p] = products[p]
             /\ \A n \in Keys(quantities[r]) \ PlanNames(stockPlans[r]) :
                  n \notin DOMAIN resp'[r].updatedStocks
             /\ \A j \in 1..Len(stockPlans[r]) :
                  LET plan == stockPlans[r][j]
                      q == ObjGet(quantities[r], plan.productName)
                  IN /\ products[plan.productDocId].stockQty >= q
                     /\ products'[plan.productDocId].stockQty
                          < products[plan.productDocId].stockQty ]_vars

\* the existing product documents named n
Named(n) == {p \in ProdDocIds : products[p].exists /\ products[p].name = n}

\* C14: when the lookup of a cart name finds no product document, or the
\* document found is gone when the transaction reads it, the invocation ends
\* there with a 400 naming the product, and the step changes neither a
\* product nor the orders; an invocation so answered never has an order.
C14_UnknownProductAborts ==
  [][ \A r \in Reqs :
        /\ (pc[r] = "txQuery" /\ pc'[r] # "txQuery"
               /\ Named(quantities[r][idx[r]][1]) = {})
             => /\ pc'[r] = "done"
                /\ resp'[r] =
                     [status |-> 400, ok |-> FALSE,
                      error |-> [msg |-> "Product not found",
                                 product |-> quantities[r][idx[r]][1], left |-> 0]]
                /\ products' = products /\ orders' = orders
        /\ (pc[r] = "txGetProduct" /\ pc'[r] # "txGetProduct"
               /\ ~products[prodDoc[r]].exists)
             => /\ pc'[r] = "done"
                /\ resp'[r] =
                     [status |-> 400, ok |-> FALSE,
                      error |-> [msg |-> "Product missing",
                                 product |-> quantities[r][idx[r]][1], left |-> 0]]
                /\ products' = products /\ orders' = orders
        /\ (resp[r].status = 400 /\ resp[r].error.msg \in {"Product not found", "Product missing"})
             => (r \notin OrderIds(orders) /\ r \notin OrderIds(orders')) ]_vars

\* Coxinha had stock and was staged, Kibe had been deleted: nothing written
C14_Witness ==
  \E r \in Reqs :
    /\ pc[r] = "done"
    /\ Len(quantities[r]) = 2 /\ quantities[r][1] = <<Coxinha, 1>>
    /\ resp[r].status = 400
    /\ resp[r].error.msg = "Product not found" /\ resp[r].error.product = Kibe
    /\ products["p1"] = initial["p1"] /\ products["p1"].stockQty >= 1
    /\ ~products["p2"].exists
    /\ orders = {}

\* C15: when the product loop reads a tracked stock of zero or less, whatever
\* the status of the product, the invocation ends there with "Insufficient
\* stock" and the step changes no product and no order; and every product a
\* commit decrements has a stock of at least 1 at that commit.
C15_EmptyStockNeverSold ==
  [][ \A r \in Reqs :
        /\ ( /\ pc[r] = "txGetProduct" /\ pc'[r] # "txGetProduct"
              /\ products[prodDoc[r]].exists
              /\ products[prodDoc[r]].tracked
              /\ products[prodDoc[r]].stockQty <= 0 )
             => /\ pc'[r] = "done"
                /\ resp'[r].status = 400
                /\ resp'[r].error.msg = "Insufficient stock"
                /\ products' = products /\ orders' = orders
        /\ Commits(r) =>
             \A j \in 1..Len(stockPlans[r]) :
               products[stockPlans[r][j].productDocId].stockQty >= 1 ]_vars

\* the seller set the stock to 0 while the transaction ran (the dashboard
\* marks the product inactive): the second run of the body was refused
C15_Witness ==
  \E r \in Reqs :
    /\ pc[r] = "done" /\ attempts[r] = 2
    /\ resp[r].status = 400 /\ resp[r].error.msg = "Insufficient stock"
    /\ resp[r].error.product = Coxinha /\ resp[r].error.left = 0
    /\ products["p1"].stockQty = 0 /\ products["p1"].status = "inactive"
    /\ orders = {}

\* the eventId of the request is absent, not a string, or blank
NoEventId(b) == b.eventId.t # "string" \/ \A i \in 1..Len(b.eventId.v) : b.eventId.v[i] = Sp

\* C16: a POST request without an eventId is answered 400 "Missing eventId",
\* and one with an eventId and a channel other than whatsapp and messenger
\* 400 "Invalid channel"; the transaction is not started and no document is
\* read or written.
C16_InputErrorsFirst ==
  \A r \in Reqs :
    ( /\ body[r] # NoBody /\ body[r].method = "POST"
      /\ (NoEventId(body[r]) \/ body[r].channel \notin {"whatsapp", "messenger"}) )
    => /\ pc[r] = "done"
       /\ resp[r] = [status |-> 400, ok |-> FALSE,
                     error |-> [msg |-> IF NoEventId(body[r]) THEN "Missing eventId"
                                        ELSE "Invalid channel",
                                product |-> <<>>, left |-> 0]]
       /\ attempts[r] = 0 /\ readSet[r] = {}
       /\ products = initial /\ orders = {} /\ events[E1].status = "active"

\* an order for an existing event and a good cart, over sms
C16_Witness ==
  /\ body[1] # NoBody /\ body[1].method = "POST"
  /\ body[1].eventId = Str(E1) /\ body[1].channel = "sms"
  /\ body[1].quantities = Obj(<<<<Coxinha, Num(2)>>>>)
  /\ resp[1].status = 400 /\ resp[1].error.msg = "Invalid channel"

\* the response to a request refused before the transaction
Refused(r, msg) ==
  /\ pc[r] = "done"
  /\ resp[r] = [status |-> 400, ok |-> FALSE,
                error |-> [msg |-> msg, product |-> <<>>, left |-> 0]]
  /\ attempts[r] = 0 /\ readSet[r] = {}
  /\ products = initial /\ orders = {}

\* C17 as claimed: a request that passes the eventId and channel checks and
\* whose quantities payload is an array or null is answered 400 "Invalid
\* quantities" before any storage access.
C17_ArrayOrNullInvalid ==
  \A r \in Reqs :
    ( /\ body[r] # NoBody /\ PassesGate(body[r])
      /\ body[r].quantities.t \in {"array", "null"} )
    => Refused(r, "Invalid quantities")

\* C17, amended: such a request is refused before any storage access, with
\* "Invalid quantities" when the payload is an array and with "Select at
\* least 1 item" when it is null.
C17_ArrayInvalidNullEmpty ==
  \A r \in Reqs :
    (body[r] # NoBody /\ PassesGate(body[r])) =>
      /\ body[r].quantities.t = "array" => Refused(r, "Invalid quantities")
      /\ body[r].quantities.t = "null" => Refused(r, "Select at least 1 item")

\* a null payload was answered as an empty cart
C17_Witness ==
  /\ body[1] # NoBody /\ PassesGate(body[1])
  /\ body[1].quantities = Null
  /\ pc[1] = "done" /\ resp[1].status = 400
  /\ resp[1].error.msg = "Select at least 1 item"

\* the raw entry e survives the cleaning: its name is not blank and its
\* quantity is a number of at least 1
Live(e) ==
  /\ \E i \in 1..Len(e[1]) : e[1][i] # Sp
  /\ e[2].t = "number" /\ e[2].h >= 2

\* the whole part of the quantity of e, the ceiling at most
Clamped(e) == IF e[2].h >= 2 * QtyMax THEN QtyMax ELSE e[2].h \div 2

LiveNames(raw) == {Trim(raw[i][1]) : i \in {j \in 1..Len(raw) : Live(raw[j])}}

\* C18: of a quantities mapping only the entries with a name and a quantity
\* of 1 or more are kept, a quantity above 999 as 999: the cart of the
\* invocation, every lookup it makes, every product an error names and the
\* stored order hold the names of such entries only, and the stored quantity
\* of a name is the clamped quantity of an entry of that name.
C18_ClampedAndDropped ==
  \A r \in Reqs :
    (body[r] # NoBody /\ PassesGate(body[r]) /\ body[r].quantities.t = "object") =>
      LET raw == body[r].quantities.entries
      IN /\ LiveNames(raw) # {} => Keys(quantities[r]) = LiveNames(raw)
         /\ LiveNames(raw) = {} => (quantities[r] = <<>> /\ pc[r] = "done" /\ attempts[r] = 0)
         /\ pc[r] \in {"txQuery", "txGetProduct"} =>
              quantities[r][idx[r]][1] \in LiveNames(raw)
         /\ (pc[r] = "done" /\ resp[r].status = 400 /\ resp[r].error.product # <<>>) =>
              resp[r].error.product \in LiveNames(raw)
         /\ \A o \in orders :
              (o.id = r) =>
                /\ DOMAIN o.quantities = LiveNames(raw)
                /\ \A n \in DOMAIN o.quantities :
                     \E i \in 1..Len(raw) :
                       Live(raw[i]) /\ Trim(raw[i][1]) = n /\ o.quantities[n] = Clamped(raw[i])

\* 1 Coxinha of a stock of 2 and 0 Pastel, which is no product: the order
\* holds Coxinha alone, 1 item, and 1 Coxinha is left
C18_Witness ==
  /\ body[1] # NoBody
  /\ body[1].quantities = Obj(<<<<Coxinha, Num(2)>>, <<Pastel, Num(0)>>>>)
  /\ resp[1].status = 200
  /\ \E o \in orders :
       o.quantities = (Coxinha :> 1) /\ o.totalItems = 1
  /\ initial["p1"].stockQty = 2 /\ products["p1"].stockQty = 1
  /\ Named(Pastel) = {}

\* C19: the locationLink of a stored order is the submitted link, trimmed,
\* when the request says deliveryMode "delivery", and the empty string for
\* every other deliveryMode, absent and unknown ones included, which are
\* stored as "pickup".
C19_LinkOnlyForDelivery ==
  \A o \in orders :
    LET b == body[o.id]
    IN /\ o.deliveryMode =
            IF b.deliveryMode \in {"delivery", "pickup", "none"} THEN b.deliveryMode
            ELSE "pickup"
       /\ o.locationLink =
            IF b.deliveryMode = "delivery" /\ b.locationLink.t = "string"
              THEN Trim(b.locationLink.v)
              ELSE <<>>

\* an order with an unknown deliveryMode and a link: stored as pickup, no link
C19_Witness ==
  \E o \in orders :
    /\ body[o.id].deliveryMode = "express"
    /\ body[o.id].locationLink = Str(<<Sp, "maps">>)
    /\ o.deliveryMode = "pickup" /\ o.locationLink = <<>>

\* nothing of the store was read or written for invocation r
NoStorageAccess(r) ==
  /\ attempts[r] = 0 /\ readSet[r] = {}
  /\ products = initial /\ orders = {} /\ events[E1].status = "active"

\* C20 as claimed: a request of any other method than POST is answered 405
\* with ok false and an error, whatever its body, and nothing of the store
\* is read or written.
C20_NonPostIs405 ==
  \A r \in Reqs :
    (body[r] # NoBody /\ body[r].method # "POST") =>
      /\ pc[r] = "done"
      /\ resp[r] = [status |-> 405, ok |-> FALSE,
                    error |-> [msg |-> "Method not allowed", product |-> <<>>, left |-> 0]]
      /\ NoStorageAccess(r)

\* C20, amended: a request of any other method than POST and OPTIONS is
\* answered 405 with ok false and an error, whatever its body; an OPTIONS
\* request is answered 204 by the CORS middleware; in both cases nothing of
\* the store is read or written.
C20_NonPostIs405Or204 ==
  \A r \in Reqs :
    (body[r] # NoBody /\ body[r].method # "POST") =>
      /\ pc[r] = "done"
      /\ resp[r] = IF body[r].method = "OPTIONS" THEN [status |-> 204]
                   ELSE [status |-> 405, ok |-> FALSE,
                         error |-> [msg |-> "Method not allowed", product |-> <<>>,
                                    left |-> 0]]
      /\ NoStorageAccess(r)

\* a GET with the body of a good order was answered 405
C20_Witness ==
  /\ body[1] # NoBody /\ body[1].method = "GET"
  /\ body[1].eventId = Str(E1) /\ body[1].channel = "whatsapp"
  /\ body[1].quantities = Obj(<<<<Coxinha, Num(2)>>>>)
  /\ pc[1] = "done" /\ resp[1].status = 405

\* the messages of the store, as opposed to those the body throws
StoreErrors == {"Storage unavailable", "Transaction contention"}

\* C21: a failure of the store during the transaction, the exhaustion of the
\* conflict retries included, ends the invocation with one response 400
\* {ok: false, error}; that step writes no stock, no order and no event, the
\* body is not run again, and the invocation never has an order afterwards.
C21_StorageFailureCaught ==
  [][ \A r \in Reqs :
        /\ ( /\ Finishes(r)
             /\ resp'[r].status = 400
             /\ resp'[r].error.msg \in StoreErrors )
           => /\ resp'[r] = [status |-> 400, ok |-> FALSE,
                             error |-> [msg |-> resp'[r].error.msg,
                                        product |-> <<>>, left |-> 0]]
              /\ products' = products /\ orders' = orders /\ events' = events
              /\ attempts'[r] = attempts[r]
        /\ ( /\ pc[r] = "done"
             /\ resp[r].status = 400
             /\ resp[r].error.msg \in StoreErrors )
           => /\ pc'[r] = "done" /\ resp'[r] = resp[r]
              /\ attempts'[r] = attempts[r]
              /\ ~HasOrder(r)' ]_vars

\* the store gave up after the seller wrote a stock under each run of the
\* body, the decrement staged at the last one being dropped
C21_Witness ==
  \E r \in Reqs :
    /\ pc[r] = "done"
    /\ resp[r].status = 400 /\ resp[r].error.msg = "Transaction contention"
    /\ attempts[r] = MaxAttempts
    /\ Asks(r, Coxinha, 1) /\ products["p1"].stockQty >= 1
    /\ orders = {}

\* the step is taken by an invocation (every write of the seller is counted)
InvocationStep == sellerOps' = sellerOps

\* the step writes no event, adds at most one order, that of a committing
\* invocation under its target event, and changes no product field but stockQty
WritesOnlyStockAndOrder ==
  /\ events' = events
  /\ orders \subseteq orders'
  /\ Cardinality(orders' \ orders) <= 1
  /\ \A o \in orders' \ orders :
       \E r \in Reqs : Commits(r) /\ o.id = r /\ o.eventId = EventId(r)
  /\ \A p \in ProdDocIds :
       products'[p] = [products[p] EXCEPT !.stockQty = products'[p].stockQty]

\* C22: a step of an invocation writes no event document, adds at most one
\* order, under its target event, and changes nothing of a product but the
\* stockQty of an existing product with tracked stock whose name is in the
\* cart of the committing invocation.
C22_Frame ==
  [][ InvocationStep =>
        /\ WritesOnlyStockAndOrder
        /\ \A p \in ProdDocIds :
             products'[p] # products[p] =>
               \E r \in Reqs :
                 /\ Commits(r)
                 /\ products[p].exists /\ products[p].tracked
                 /\ products[p].name \in Keys(quantities[r]) ]_vars

\* the step is taken by invocation r while its body is still reading
Reads(r) ==
  /\ pc[r] \in {"txGetEvent", "txQuery", "txGetProduct"}
  /\ pc'[r] # pc[r]

\* the body of r has returned and nothing it read has changed since
BodyReturned(r) == pc[r] = "txCommit" /\ ~stale[r]

\* C24: a step of the body that reads or checks writes nothing to the store;
\* when the body has returned, the event and the document of every cart name
\* have been read, a decrement is staged for every one with tracked stock
\* (its check passed: the new stock is not negative), none is applied yet and
\* no order exists; the commit then applies the staged decrements and creates
\* the order.
C24_ReadsBeforeWrites ==
  [][ \A r \in Reqs :
        /\ Reads(r) => UNCHANGED <<events, products, orders>>
        /\ BodyReturned(r) =>
             /\ EventDoc(EventId(r)) \in readSet[r]
             /\ ~HasOrder(r)
             /\ \A i \in 1..Len(quantities[r]) :
                  LET n == quantities[r][i][1]
                      q == quantities[r][i][2]
                      p == Query(n)
                  IN /\ p # NoDoc /\ ProductDoc(p) \in readSet[r]
                     /\ products[p].tracked =>
                          /\ products[p].stockQty >= q
                          /\ \E k \in 1..Len(stockPlans[r]) :
                               stockPlans[r][k] =
                                 [productDocId |-> p, productName |-> n,
                                  newStock |-> products[p].stockQty - q]
                          /\ Commits(r) =>
                               products'[p].stockQty = products[p].stockQty - q
             /\ pc'[r] # pc[r] => Commits(r) ]_vars

\* the body has returned with the decrements of two tracked products staged
\* and none applied
C24_Witness ==
  \E r \in Reqs :
    /\ BodyReturned(r)
    /\ Len(stockPlans[r]) = 2
    /\ products = initial /\ orders = {}

\* the quantities payload is neither a mapping nor absent
BadShape(b) == b.quantities.t \notin {"object", "undefined", "null"}

\* the payload, once cleaned, names no product with a quantity of 1 or more
ZeroItems(b) ==
  b.quantities.t = "object" =>
    \A i \in 1..Len(b.quantities.entries) :
      LET k == b.quantities.entries[i][1]
          q == b.quantities.entries[i][2]
      IN ~(Trim(k) # <<>> /\ q.t = "number" /\ q.h >= 2)

\* the message of the first input rule the request breaks, "" if none
FirstViolation(b) ==
  IF NoEventId(b) THEN "Missing eventId"
  ELSE IF b.channel \notin {"whatsapp", "messenger"} THEN "Invalid channel"
  ELSE IF BadShape(b) THEN "Invalid quantities"
  ELSE IF ZeroItems(b) THEN "Select at least 1 item"
  ELSE ""

\* C25: a POST request that breaks one or several input rules is answered
\* 400 with the message of the first broken rule in the order eventId,
\* channel, shape of quantities, zero items, before anything of the store is
\* read or written; one that breaks none starts the transaction.
C25_FirstViolationOnly ==
  \A r \in Reqs :
    (body[r] # NoBody /\ body[r].method = "POST") =>
      IF FirstViolation(body[r]) # ""
        THEN /\ Refused(r, FirstViolation(body[r]))
             /\ events[E1].exists /\ events[E1].status = "active"
        ELSE attempts[r] >= 1

\* no eventId, an unknown channel and an array of quantities at once
C25_Witness ==
  /\ body[1] # NoBody /\ body[1].method = "POST"
  /\ body[1].eventId = Undefined /\ body[1].channel = "sms"
  /\ body[1].quantities = Arr
  /\ pc[1] = "done" /\ resp[1].error.msg = "Missing eventId"

\* the store holds a product for every name of the cart of r, with enough
\* stock where it is tracked (nothing but r having written meanwhile)
CartAvailable(r) ==
  \A i \in 1..Len(quantities[r]) :
    LET n == quantities[r][i][1]
        q == quantities[r][i][2]
    IN \E p \in ProdDocIds :
         /\ initial[p].exists /\ initial[p].name = n
         /\ initial[p].tracked => initial[p].stockQty >= q

\* C26: a finished invocation whose event document has no status (or an
\* empty one) was never answered "Event is not active", and when the store
\* holds every product of its cart in sufficient stock it has its order and
\* the response 200.
C26_NoStatusIsActive ==
  \A r \in Reqs :
    ( /\ pc[r] = "done" /\ EventId(r) = E1
      /\ events[E1].exists /\ events[E1].status = "" )
    => /\ resp[r].status = 400 => resp[r].error.msg # "Event is not active"
       /\ CartAvailable(r) => (HasOrder(r) /\ resp[r].status = 200)

\* an order committed under an event without status
C26_Witness ==
  /\ events[E1].status = ""
  /\ HasOrder(1) /\ resp[1].status = 200
  /\ Asks(1, Coxinha, 1) /\ products["p1"].stockQty = initial["p1"].stockQty - 1

\* C27: a finished invocation has its order exactly when its event exists
\* and is active (or without status) and the store holds every product of
\* its cart in sufficient stock, whatever the status of the products and
\* whether or not the event lists them.
C27_AcceptanceCriteria ==
  \A r \in Reqs :
    pc[r] = "done" =>
      ( (HasOrder(r) /\ resp[r].status = 200)
          <=> /\ EventId(r) \in EventDocIds /\ events[EventId(r)].exists
              /\ events[EventId(r)].status \in {"", "active"}
              /\ CartAvailable(r) )

\* an order of a product marked inactive that the event does not list
C27_Witness ==
  /\ HasOrder(1) /\ resp[1].status = 200
  /\ Asks(1, Coxinha, 1) /\ ~Asks(1, Kibe, 1) /\ ~Asks(1, Kibe, 2)
  /\ products["p1"].status = "inactive" /\ products["p1"].stockQty >= 0
  /\ Coxinha \notin events[E1].productNames

\* C28: in the transaction of registerOrderInFirestore no read is issued
\* after a write, whatever the cart.
C28_ClientReadsFirst ==
  \A i, j \in 1..Len(txOps) :
    (i < j /\ txOps[i].op \in {"update", "set"}) => txOps[j].op # "get"

\* C29: a step of the event page that resets the form or opens the link is
\* the end of a fetch answered with a success status and a body {ok: true};
\* when the fetch ends any other way (an error response, a body that is not
\* {ok: true}, the timeout, a network failure) the quantities of the form are
\* kept, no link is opened and a message is alerted.
C29_LinkAfterSuccess ==
  [][ /\ ((linkOpened' /\ ~linkOpened) \/ (formWasReset' /\ ~formWasReset)) =>
           /\ sendPc = "awaiting"
           /\ fetchOutcome'.kind = "response"
           /\ fetchOutcome'.respOk /\ fetchOutcome'.data = "okTrue"
           /\ linkOpened' /\ formWasReset'
           /\ \A n \in Names : formQuantities'[n] = 0
      /\ ( /\ sendPc = "awaiting" /\ sendPc' = "form"
           /\ ~( /\ fetchOutcome'.kind = "response"
                 /\ fetchOutcome'.respOk /\ fetchOutcome'.data = "okTrue" ) )
         => /\ formQuantities' = formQuantities
            /\ ~linkOpened' /\ ~formWasReset'
            /\ alertShown' # "" ]_vars

\* the endpoint answered 200 with a body that was not {ok: true}: the cart
\* of two products is still in the form, no link was opened
C29_Witness ==
  /\ fetchOutcome.kind = "response" /\ fetchOutcome.respOk /\ fetchOutcome.data = "okFalse"
  /\ sendPc = "form" /\ alertShown # "" /\ ~linkOpened
  /\ formQuantities[Coxinha] = 1 /\ formQuantities[Kibe] = 2

\* the step is a call of handleToggleDelivered on order o
Toggles(o) == toggles' = toggles + 1 /\ lastToggle'.order = o

\* C30: a toggle made with a name in the field and answered by the store
\* marks an order the page does not show as delivered with the status
\* "delivered" and the trimmed name, and an order it shows as delivered with
\* "confirmed" and no name; a toggle made with an empty or blank name writes
\* nothing; and once a toggle has written, every order is in the delivered
\* list of the page exactly when its status is "delivered".
C30_ToggleDelivered ==
  [][ /\ \A o \in DriverOrderIds :
           Toggles(o) =>
             IF \A i \in 1..Len(driverName) : driverName[i] = Sp
               THEN /\ ~lastToggle'.wrote
                    /\ UNCHANGED <<storedOrders, driverOrders, deliveredOrderIds>>
             ELSE IF ~lastToggle'.wrote
               THEN UNCHANGED <<storedOrders, driverOrders, deliveredOrderIds>>
             ELSE IF o \notin deliveredOrderIds
               THEN /\ storedOrders'[o].status = "delivered"
                    /\ storedOrders'[o].deliveryDriverName = <<"Ze">>
                    /\ \A x \in DriverOrderIds \ {o} : storedOrders'[x] = storedOrders[x]
               ELSE /\ storedOrders'[o].status = "confirmed"
                    /\ storedOrders'[o].deliveryDriverName = <<>>
                    /\ \A x \in DriverOrderIds \ {o} : storedOrders'[x] = storedOrders[x]
      /\ toggledSinceLoad' =>
           \A o \in DriverOrderIds :
             (o \in deliveredOrderIds') <=> (driverOrders'[o].status = "delivered") ]_vars

\* C23: at a commit, every document the invocation decrements for a cart
\* name exists and bears that name in the committed state, and no two cart
\* names are decremented on the same document, whatever the seller renamed,
\* deleted or recreated between the lookups and the commit.
C23_ResolutionAtomic ==
  [][ \A r \in Reqs :
        Commits(r) =>
          \A i \in 1..Len(stockPlans[r]) :
            LET plan == stockPlans[r][i]
            IN /\ products'[plan.productDocId].exists
               /\ products'[plan.productDocId].name = plan.productName
               /\ \A j \in 1..Len(stockPlans[r]) :
                    plan.productDocId = stockPlans[r][j].productDocId => i = j ]_vars

====
